---- MODULE Spec2Model ----
(***************************************************************************)
(* simple-encoder (src/index.ts): codecs between byte buffers and text.    *)
(*                                                                         *)
(* A string is the sequence of its UTF-16 code units (naturals below       *)
(* 65536); a typed array is a view [type, mem, off, len, id] of len        *)
(* elements over the bytes mem of its ArrayBuffer, starting at byte offset *)
(* off; id is the object's identity.  A call returns                       *)
(*   [kind, str, ta, err, ran]                                             *)
(* kind "string" (str), "bytes" (ta) or "error" (err), and ran lists the   *)
(* codec routines a dispatcher invoked, in order.                          *)
(***************************************************************************)
EXTENDS Integers, Sequences, FiniteSets, TLC

VARIABLES pc, op, argKind, argStr, argTa, argSrc, argDst, result

vars == <<pc, op, argKind, argStr, argTa, argSrc, argDst, result>>

(***************************** bounds **************************************)
MaxBufLen == 3
MaxHexLen == 4
MaxBitLen == 9
MaxTailLen == 3
MaxB64Len == 4
MaxDispLen == 3
MaxConvLen == 2
MaxMemLen == 4

(***************************** helpers *************************************)
RECURSIVE SeqsUpTo(_, _)
SeqsUpTo(S, n) ==
    IF n = 0 THEN {<<>>}
    ELSE LET shorter == SeqsUpTo(S, n - 1)
         IN shorter \cup {Append(s, c) : s \in {t \in shorter : Len(t) = n - 1}, c \in S}

RECURSIVE Concat(_)
Concat(ss) == IF ss = <<>> THEN <<>> ELSE Head(ss) \o Concat(Tail(ss))

RECURSIVE Pow2(_)
Pow2(n) == IF n = 0 THEN 1 ELSE 2 * Pow2(n - 1)

Min(a, b) == IF a < b THEN a ELSE b

\* Math.ceil(n / d) for naturals
Ceil(n, d) == (n + d - 1) \div d

\* String.prototype.substring(from, to) with 0-based, clamped indices
Substring(s, from, to) == SubSeq(s, Min(from, Len(s)) + 1, Min(to, Len(s)))

(************************** typed arrays ***********************************)
FreshId == "fresh"
CallerId == "caller"

TypedArrayTypes ==
    {"Int8Array", "Uint8Array", "Uint8ClampedArray", "Int16Array", "Uint16Array",
     "Int32Array", "Uint32Array"}

BytesPerElement(type) ==
    CASE type \in {"Int8Array", "Uint8Array", "Uint8ClampedArray"} -> 1
      [] type \in {"Int16Array", "Uint16Array"} -> 2
      [] type \in {"Int32Array", "Uint32Array"} -> 4

\* the bytes of a view's own elements, in memory order
ViewBytes(ta) == SubSeq(ta.mem, ta.off + 1, ta.off + ta.len * BytesPerElement(ta.type))

\* new Uint8Array(n) filled with bytes: a fresh buffer, viewed whole
NewUint8Array(bytes) ==
    [type |-> "Uint8Array", mem |-> bytes, off |-> 0, len |-> Len(bytes), id |-> FreshId]

\* new Uint8Array(buffer): a fresh view of the WHOLE ArrayBuffer
NewUint8ArrayOfBuffer(mem) ==
    [type |-> "Uint8Array", mem |-> mem, off |-> 0, len |-> Len(mem), id |-> FreshId]

NoTa == NewUint8Array(<<>>)

typedArrayToUint8Array(typedArray) ==
    IF typedArray.type = "Uint8Array" THEN typedArray
    ELSE NewUint8ArrayOfBuffer(typedArray.mem)

(***************************** results *************************************)
StrResult(s) == [kind |-> "string", str |-> s, ta |-> NoTa, err |-> "none", ran |-> <<>>]
TaResult(t) == [kind |-> "bytes", str |-> <<>>, ta |-> t, err |-> "none", ran |-> <<>>]
Throw(e) == [kind |-> "error", str |-> <<>>, ta |-> NoTa, err |-> e, ran |-> <<>>]
NoResult == [kind |-> "none", str |-> <<>>, ta |-> NoTa, err |-> "none", ran |-> <<>>]

(************************** number to text *********************************)
\* a plausible slip: upper-case digits
DigitChar_upper(d) == IF d < 10 THEN 48 + d ELSE 55 + d

\* the digit characters of Number.prototype.toString(radix): 0-9 then a-z
DigitChar(d) == IF d < 10 THEN 48 + d ELSE 87 + d

RECURSIVE ToStringRadix(_, _)
ToStringRadix(n, radix) ==
    IF n < radix THEN <<DigitChar(n)>>
    ELSE Append(ToStringRadix(n \div radix, radix), DigitChar(n % radix))

RECURSIVE PadStart(_, _, _)
PadStart(s, width, c) == IF Len(s) >= width THEN s ELSE PadStart(<<c>> \o s, width, c)

(****************************** hex ****************************************)
HEX_MAP ==
    (48 :> 0) @@ (49 :> 1) @@ (50 :> 2) @@ (51 :> 3) @@ (52 :> 4) @@ (53 :> 5) @@
    (54 :> 6) @@ (55 :> 7) @@ (56 :> 8) @@ (57 :> 9) @@
    (97 :> 10) @@ (98 :> 11) @@ (99 :> 12) @@ (100 :> 13) @@ (101 :> 14) @@ (102 :> 15) @@
    (65 :> 10) @@ (66 :> 11) @@ (67 :> 12) @@ (68 :> 13) @@ (69 :> 14) @@ (70 :> 15)

\* HEX_MAP[c], with -1 for undefined
HexLookup(c) == IF c \in DOMAIN HEX_MAP THEN HEX_MAP[c] ELSE -1

\* a plausible slip: the lone last digit taken as the high nibble
HexByteAt_high(hex, i) ==
    LET pair == IF 2 * i + 2 <= Len(hex)
                THEN <<hex[2 * i + 1], hex[2 * i + 2]>>
                ELSE <<hex[2 * i + 1], 48>>
        a == HexLookup(pair[1])
        b == HexLookup(pair[2])
    IN IF a = -1 \/ b = -1 THEN -1 ELSE a * 16 + b

\* one turn of hexToTypedArray's loop, i counted from 0: the byte, or -1 for a throw
HexByteAt(hex, i) ==
    LET pair == IF 2 * i + 2 <= Len(hex)
                THEN <<hex[2 * i + 1], hex[2 * i + 2]>>
                ELSE <<48, hex[2 * i + 1]>>
        a == HexLookup(pair[1])
        b == HexLookup(pair[2])
    IN IF a = -1 \/ b = -1 THEN -1 ELSE a * 16 + b

hexToTypedArray(hex) ==
    LET n == Ceil(Len(hex), 2)
        bytes == [i \in 1..n |-> HexByteAt(hex, i - 1)]
    IN IF \E i \in 1..n : bytes[i] = -1 THEN Throw("InvalidInput")
       ELSE TaResult(NewUint8Array(bytes))

\* a plausible slip: padStart forgotten
ByteToHex_noPad(byte) == ToStringRadix(byte, 16)

ByteToHex(byte) == PadStart(ToStringRadix(byte, 16), 2, 48)

typedArrayToHex(typedArray) ==
    LET u == typedArrayToUint8Array(typedArray)
        bs == ViewBytes(u)
    IN StrResult(Concat([i \in 1..Len(bs) |-> ByteToHex(bs[i])]))

(***************************** base 2 **************************************)
\* white space that Number() strips from both ends of its argument
StrWhiteSpace == {9, 10, 11, 12, 13, 32, 160, 8232, 8233, 65279}

RECURSIVE TrimEnd(_)
TrimEnd(s) ==
    IF s # <<>> /\ s[Len(s)] \in StrWhiteSpace THEN TrimEnd(SubSeq(s, 1, Len(s) - 1)) ELSE s

RECURSIVE BinaryValue(_)
BinaryValue(ds) ==
    IF ds = <<>> THEN 0 ELSE 2 * BinaryValue(SubSeq(ds, 1, Len(ds) - 1)) + (ds[Len(ds)] - 48)

\* a plausible slip: the group padded with zeros on the right before parsing
NumberOfBinaryLiteral_padEnd(group) ==
    LET ds == TrimEnd(group)
    IN IF ds # <<>> /\ \A k \in 1..Len(ds) : ds[k] \in {48, 49}
       THEN BinaryValue(ds) * Pow2(8 - Len(ds)) ELSE -1

\* Number("0b" + group): the argument starts with "0", so only its end is trimmed;
\* what is left must be 0b and one or more binary digits.  -1 stands for NaN.
NumberOfBinaryLiteral(group) ==
    LET ds == TrimEnd(group)
    IN IF ds # <<>> /\ \A k \in 1..Len(ds) : ds[k] \in {48, 49}
       THEN BinaryValue(ds) ELSE -1

binaryStringToTypedArray(binary) ==
    LET n == Ceil(Len(binary), 8)
        bytes == [i \in 1..n |->
                    NumberOfBinaryLiteral(Substring(binary, (i - 1) * 8, (i - 1) * 8 + 8))]
    IN IF \E i \in 1..n : bytes[i] = -1 THEN Throw("InvalidInput")
       ELSE TaResult(NewUint8Array(bytes))

typedArrayToBinaryString(typedArray) ==
    LET u == typedArrayToUint8Array(typedArray)
        bs == ViewBytes(u)
    IN StrResult(Concat([i \in 1..Len(bs) |-> PadStart(ToStringRadix(bs[i], 2), 8, 48)]))

(***************************** latin1 **************************************)
binaryToTypedArray(binary) ==
    IF \E i \in 1..Len(binary) : binary[i] > 255 THEN Throw("InvalidInput")
    ELSE TaResult(NewUint8Array(binary))

\* String.fromCharCode(...typedArray): one code unit per byte
typedArrayToBinary(typedArray) == StrResult(ViewBytes(typedArrayToUint8Array(typedArray)))

(***************************** base64 **************************************)
\* the standard alphabet: A-Z a-z 0-9 + /
B64Char(v) ==
    IF v < 26 THEN 65 + v
    ELSE IF v < 52 THEN 97 + (v - 26)
    ELSE IF v < 62 THEN 48 + (v - 52)
    ELSE IF v = 62 THEN 43 ELSE 47

\* the alphabet's value of a character, -1 when it has none
B64Val(c) ==
    IF c \in 65..90 THEN c - 65
    ELSE IF c \in 97..122 THEN c - 97 + 26
    ELSE IF c \in 48..57 THEN c - 48 + 52
    ELSE IF c = 43 THEN 62
    ELSE IF c = 47 THEN 63 ELSE -1

\* globalThis.btoa on a string of code units below 256
RECURSIVE Btoa(_)
Btoa(bs) ==
    IF Len(bs) = 0 THEN <<>>
    ELSE IF Len(bs) = 1 THEN
        <<B64Char(bs[1] \div 4), B64Char((bs[1] % 4) * 16), 61, 61>>
    ELSE IF Len(bs) = 2 THEN
        <<B64Char(bs[1] \div 4), B64Char((bs[1] % 4) * 16 + bs[2] \div 16),
          B64Char((bs[2] % 16) * 4), 61>>
    ELSE
        <<B64Char(bs[1] \div 4), B64Char((bs[1] % 4) * 16 + bs[2] \div 16),
          B64Char((bs[2] % 16) * 4 + bs[3] \div 64), B64Char(bs[3] % 64)>>
        \o Btoa(SubSeq(bs, 4, Len(bs)))

AsciiWhiteSpace == {9, 10, 12, 13, 32}

RemoveAll(s, S) == SelectSeq(s, LAMBDA c : c \notin S)

\* the bytes of a run of alphabet characters; a last group of 2 or 3 characters
\* gives 1 or 2 bytes, its spare low bits dropped
RECURSIVE B64Bytes(_)
B64Bytes(cs) ==
    IF Len(cs) < 2 THEN <<>>
    ELSE LET v1 == B64Val(cs[1])
             v2 == B64Val(cs[2])
             b1 == v1 * 4 + v2 \div 16
         IN IF Len(cs) = 2 THEN <<b1>>
            ELSE LET v3 == B64Val(cs[3])
                     b2 == (v2 % 16) * 16 + v3 \div 4
                 IN IF Len(cs) = 3 THEN <<b1, b2>>
                    ELSE <<b1, b2, (v3 % 4) * 64 + B64Val(cs[4])>>
                         \o B64Bytes(SubSeq(cs, 5, Len(cs)))

\* "=" padding removed from data whose length is a multiple of 4
StripPadding(d) ==
    IF Len(d) % 4 = 0 /\ Len(d) > 0 /\ d[Len(d)] = 61
    THEN IF d[Len(d) - 1] = 61 THEN SubSeq(d, 1, Len(d) - 2) ELSE SubSeq(d, 1, Len(d) - 1)
    ELSE d

\* globalThis.atob (forgiving-base64 decode); <<-1>> stands for its exception
Atob(data) ==
    LET d == RemoveAll(data, AsciiWhiteSpace)
        e == StripPadding(d)
    IN IF Len(e) % 4 = 1 \/ \E i \in 1..Len(e) : B64Val(e[i]) = -1
       THEN <<-1>> ELSE B64Bytes(e)

asciiToTypedArray(ascii) ==
    LET decoded == Atob(ascii)
    IN IF decoded = <<-1>> THEN Throw("InvalidInput") ELSE TaResult(NewUint8Array(decoded))

\* String.prototype.replace(/x/g, y) for one character
ReplaceAll(s, x, y) == [i \in 1..Len(s) |-> IF s[i] = x THEN y ELSE s[i]]

\* the characters the regular expression \s matches
RegExpWhiteSpace == StrWhiteSpace \cup {5760} \cup (8192..8202) \cup {8239, 8287, 12288}

\* a plausible slip: "-" not put back to "+"
asciiUrlToTypedArray_noPlus(asciiUrl) ==
    asciiToTypedArray(RemoveAll(ReplaceAll(asciiUrl, 95, 47), RegExpWhiteSpace))

asciiUrlToTypedArray(asciiUrl) ==
    asciiToTypedArray(
        RemoveAll(ReplaceAll(ReplaceAll(asciiUrl, 45, 43), 95, 47), RegExpWhiteSpace))

typedArrayToAscii(typedArray) == StrResult(Btoa(typedArrayToBinary(typedArray).str))

typedArrayToAsciiUrl(typedArray) ==
    StrResult(ReplaceAll(ReplaceAll(RemoveAll(typedArrayToAscii(typedArray).str, {61}),
                                    43, 45), 47, 95))

(************************** windows-1252 ***********************************)
WINDOWS_1252_MAP ==
    (8364 :> 128) @@ (8218 :> 130) @@ (402 :> 131) @@ (8222 :> 132) @@ (8230 :> 133) @@
    (8224 :> 134) @@ (8225 :> 135) @@ (710 :> 136) @@ (8240 :> 137) @@ (352 :> 138) @@
    (8249 :> 139) @@ (338 :> 140) @@ (381 :> 142) @@ (8216 :> 145) @@ (8217 :> 146) @@
    (8220 :> 147) @@ (8221 :> 148) @@ (8226 :> 149) @@ (8211 :> 150) @@ (8212 :> 151) @@
    (732 :> 152) @@ (8482 :> 153) @@ (353 :> 154) @@ (8250 :> 155) @@ (339 :> 156) @@
    (382 :> 158) @@ (376 :> 159)

windows1252ToTypedArray(string) ==
    LET byteOf(c) == IF c \in DOMAIN WINDOWS_1252_MAP THEN WINDOWS_1252_MAP[c]
                     ELSE IF c > 255 THEN -1 ELSE c
        bytes == [i \in 1..Len(string) |-> byteOf(string[i])]
    IN IF \E i \in 1..Len(string) : bytes[i] = -1 THEN Throw("InvalidInput")
       ELSE TaResult(NewUint8Array(bytes))

\* TextDecoder("windows-1252"): the encoding's index gives every byte a character;
\* the 27 bytes of the table above decode to its keys, every other byte to itself
Windows1252CharOf(byte) ==
    IF \E c \in DOMAIN WINDOWS_1252_MAP : WINDOWS_1252_MAP[c] = byte
    THEN CHOOSE c \in DOMAIN WINDOWS_1252_MAP : WINDOWS_1252_MAP[c] = byte
    ELSE byte

typedArrayToWindows1252(typedArray) ==
    LET bs == ViewBytes(typedArrayToUint8Array(typedArray))
    IN StrResult([i \in 1..Len(bs) |-> Windows1252CharOf(bs[i])])

(****************************** utf-16 *************************************)
IsHighSurrogate(u) == u \in 55296..56319
IsLowSurrogate(u) == u \in 56320..57343

\* the bytes of a Uint16Array's buffer on a little-endian platform
utf16ToTypedArray(string) ==
    TaResult(NewUint8ArrayOfBuffer(
        Concat([i \in 1..Len(string) |-> <<string[i] % 256, string[i] \div 256>>])))

\* every surrogate of a sequence of code units is one of a high-low pair
RECURSIVE WellFormedUtf16(_)
WellFormedUtf16(us) ==
    IF us = <<>> THEN TRUE
    ELSE IF IsHighSurrogate(us[1])
         THEN Len(us) >= 2 /\ IsLowSurrogate(us[2]) /\ WellFormedUtf16(SubSeq(us, 3, Len(us)))
    ELSE IF IsLowSurrogate(us[1]) THEN FALSE
    ELSE WellFormedUtf16(Tail(us))

\* a decoder without ignoreBOM drops one leading U+FEFF
StripBom(us) == IF us # <<>> /\ us[1] = 65279 THEN Tail(us) ELSE us

\* TextDecoder("utf-16", {fatal: true}): UTF-16LE
typedArrayToUtf16(typedArray) ==
    LET bs == ViewBytes(typedArrayToUint8Array(typedArray))
        us == [i \in 1..(Len(bs) \div 2) |-> bs[2 * i - 1] + 256 * bs[2 * i]]
    IN IF Len(bs) % 2 = 1 \/ ~WellFormedUtf16(us) THEN Throw("InvalidInput")
       ELSE StrResult(StripBom(us))

(******************************* utf-8 *************************************)
\* the code points of a string, a lone surrogate replaced by U+FFFD
RECURSIVE CodePoints(_)
CodePoints(us) ==
    IF us = <<>> THEN <<>>
    ELSE IF IsHighSurrogate(us[1]) /\ Len(us) >= 2 /\ IsLowSurrogate(us[2])
         THEN <<65536 + (us[1] - 55296) * 1024 + (us[2] - 56320)>>
              \o CodePoints(SubSeq(us, 3, Len(us)))
    ELSE IF IsHighSurrogate(us[1]) \/ IsLowSurrogate(us[1])
         THEN <<65533>> \o CodePoints(Tail(us))
    ELSE <<us[1]>> \o CodePoints(Tail(us))

Utf8OfCodePoint(cp) ==
    IF cp < 128 THEN <<cp>>
    ELSE IF cp < 2048 THEN <<192 + cp \div 64, 128 + (cp % 64)>>
    ELSE IF cp < 65536 THEN <<224 + cp \div 4096, 128 + ((cp \div 64) % 64), 128 + (cp % 64)>>
    ELSE <<240 + cp \div 262144, 128 + ((cp \div 4096) % 64), 128 + ((cp \div 64) % 64),
           128 + (cp % 64)>>

\* new TextEncoder().encode(string)
utf8ToTypedArray(string) ==
    LET cps == CodePoints(string)
    IN TaResult(NewUint8Array(Concat([i \in 1..Len(cps) |-> Utf8OfCodePoint(cps[i])])))

IsCont(bs, k) == Len(bs) >= k /\ bs[k] \in 128..191

\* the code points of a UTF-8 byte sequence; -1 marks an invalid sequence
RECURSIVE Utf8CodePoints(_)
Utf8CodePoints(bs) ==
    IF bs = <<>> THEN <<>>
    ELSE LET b == bs[1] IN
      IF b < 128 THEN <<b>> \o Utf8CodePoints(Tail(bs))
      ELSE IF b \in 194..223 /\ IsCont(bs, 2)
           THEN <<(b - 192) * 64 + (bs[2] - 128)>> \o Utf8CodePoints(SubSeq(bs, 3, Len(bs)))
      ELSE IF b \in 224..239 /\ IsCont(bs, 2) /\ IsCont(bs, 3)
              /\ (b = 224 => bs[2] >= 160) /\ (b = 237 => bs[2] <= 159)
           THEN <<(b - 224) * 4096 + (bs[2] - 128) * 64 + (bs[3] - 128)>>
                \o Utf8CodePoints(SubSeq(bs, 4, Len(bs)))
      ELSE IF b \in 240..244 /\ IsCont(bs, 2) /\ IsCont(bs, 3) /\ IsCont(bs, 4)
              /\ (b = 240 => bs[2] >= 144) /\ (b = 244 => bs[2] <= 143)
           THEN <<(b - 240) * 262144 + (bs[2] - 128) * 4096 + (bs[3] - 128) * 64
                  + (bs[4] - 128)>> \o Utf8CodePoints(SubSeq(bs, 5, Len(bs)))
      ELSE <<-1>>

CodeUnitsOf(cp) ==
    IF cp < 65536 THEN <<cp>>
    ELSE <<55296 + (cp - 65536) \div 1024, 56320 + ((cp - 65536) % 1024)>>

\* TextDecoder("utf-8", {fatal: true})
typedArrayToUtf8(typedArray) ==
    LET bs == ViewBytes(typedArrayToUint8Array(typedArray))
        cps == Utf8CodePoints(bs)
    IN IF \E i \in 1..Len(cps) : cps[i] = -1 THEN Throw("InvalidInput")
       ELSE StrResult(StripBom(Concat([i \in 1..Len(cps) |-> CodeUnitsOf(cps[i])])))

(**************************** dispatchers **********************************)
Encodings ==
    {"base2", "binaryString", "binary", "latin1", "base16", "hex", "base64", "ascii",
     "base64Url", "asciiUrl", "windows1252", "windows-1252", "utf16", "utf-16",
     "utf8", "utf-8"}

Ran(name, r) == [r EXCEPT !.ran = <<name>>]

\* a plausible slip: the default branch falls back to UTF-8
stringToTypedArray_defaultUtf8(str, encoding) ==
    CASE encoding \in {"base2", "binaryString"} ->
            Ran("binaryStringToTypedArray", binaryStringToTypedArray(str))
      [] encoding \in {"binary", "latin1"} ->
            Ran("binaryToTypedArray", binaryToTypedArray(str))
      [] encoding \in {"base16", "hex"} ->
            Ran("hexToTypedArray", hexToTypedArray(str))
      [] encoding \in {"base64", "ascii"} ->
            Ran("asciiToTypedArray", asciiToTypedArray(str))
      [] encoding \in {"base64Url", "asciiUrl"} ->
            Ran("asciiUrlToTypedArray", asciiUrlToTypedArray(str))
      [] encoding \in {"windows1252", "windows-1252"} ->
            Ran("windows1252ToTypedArray", windows1252ToTypedArray(str))
      [] encoding \in {"utf16", "utf-16"} ->
            Ran("utf16ToTypedArray", utf16ToTypedArray(str))
      [] OTHER ->
            Ran("TextEncoder.encode", utf8ToTypedArray(str))

stringToTypedArray(str, encoding) ==
    CASE encoding \in {"base2", "binaryString"} ->
            Ran("binaryStringToTypedArray", binaryStringToTypedArray(str))
      [] encoding \in {"binary", "latin1"} ->
            Ran("binaryToTypedArray", binaryToTypedArray(str))
      [] encoding \in {"base16", "hex"} ->
            Ran("hexToTypedArray", hexToTypedArray(str))
      [] encoding \in {"base64", "ascii"} ->
            Ran("asciiToTypedArray", asciiToTypedArray(str))
      [] encoding \in {"base64Url", "asciiUrl"} ->
            Ran("asciiUrlToTypedArray", asciiUrlToTypedArray(str))
      [] encoding \in {"windows1252", "windows-1252"} ->
            Ran("windows1252ToTypedArray", windows1252ToTypedArray(str))
      [] encoding \in {"utf16", "utf-16"} ->
            Ran("utf16ToTypedArray", utf16ToTypedArray(str))
      [] encoding \in {"utf8", "utf-8"} ->
            Ran("TextEncoder.encode", utf8ToTypedArray(str))
      [] OTHER ->
            Throw("UnsupportedEncoding")

\* a plausible slip: the case "base16" left out
typedArrayToString_noBase16(typedArray, encoding) ==
    CASE encoding \in {"base2", "binaryString"} ->
            Ran("typedArrayToBinaryString", typedArrayToBinaryString(typedArray))
      [] encoding \in {"binary", "latin1"} ->
            Ran("typedArrayToBinary", typedArrayToBinary(typedArray))
      [] encoding \in {"hex"} ->
            Ran("typedArrayToHex", typedArrayToHex(typedArray))
      [] encoding \in {"base64", "ascii"} ->
            Ran("typedArrayToAscii", typedArrayToAscii(typedArray))
      [] encoding \in {"base64Url", "asciiUrl"} ->
            Ran("typedArrayToAsciiUrl", typedArrayToAsciiUrl(typedArray))
      [] encoding \in {"windows1252", "windows-1252"} ->
            Ran("typedArrayToWindows1252", typedArrayToWindows1252(typedArray))
      [] encoding \in {"utf16", "utf-16"} ->
            Ran("typedArrayToUtf16", typedArrayToUtf16(typedArray))
      [] encoding \in {"utf8", "utf-8"} ->
            Ran("typedArrayToUtf8", typedArrayToUtf8(typedArray))
      [] OTHER ->
            Throw("UnsupportedEncoding")

typedArrayToString(typedArray, encoding) ==
    CASE encoding \in {"base2", "binaryString"} ->
            Ran("typedArrayToBinaryString", typedArrayToBinaryString(typedArray))
      [] encoding \in {"binary", "latin1"} ->
            Ran("typedArrayToBinary", typedArrayToBinary(typedArray))
      [] encoding \in {"base16", "hex"} ->
            Ran("typedArrayToHex", typedArrayToHex(typedArray))
      [] encoding \in {"base64", "ascii"} ->
            Ran("typedArrayToAscii", typedArrayToAscii(typedArray))
      [] encoding \in {"base64Url", "asciiUrl"} ->
            Ran("typedArrayToAsciiUrl", typedArrayToAsciiUrl(typedArray))
      [] encoding \in {"windows1252", "windows-1252"} ->
            Ran("typedArrayToWindows1252", typedArrayToWindows1252(typedArray))
      [] encoding \in {"utf16", "utf-16"} ->
            Ran("typedArrayToUtf16", typedArrayToUtf16(typedArray))
      [] encoding \in {"utf8", "utf-8"} ->
            Ran("typedArrayToUtf8", typedArrayToUtf8(typedArray))
      [] OTHER ->
            Throw("UnsupportedEncoding")

(************************* generic converter *******************************)
\* the second call runs only when the first returned; an exception of either
\* is the call's outcome
Then(r1, r2) == IF r1.kind = "error" THEN r1 ELSE [r2 EXCEPT !.ran = r1.ran \o r2.ran]

\* a plausible slip: the two labels exchanged
convertEncoding_swapped(kind, str, typedArray, encodingSource, encodingOutput) ==
    IF kind = "string"
    THEN LET r1 == stringToTypedArray(str, encodingOutput)
         IN Then(r1, typedArrayToString(r1.ta, encodingSource))
    ELSE LET r1 == typedArrayToString(typedArray, encodingOutput)
         IN Then(r1, stringToTypedArray(r1.str, encodingSource))

\* value is the string str when kind = "string" (isString), else the typed array
convertEncoding(kind, str, typedArray, encodingSource, encodingOutput) ==
    IF kind = "string"
    THEN LET r1 == stringToTypedArray(str, encodingSource)
         IN Then(r1, typedArrayToString(r1.ta, encodingOutput))
    ELSE LET r1 == typedArrayToString(typedArray, encodingSource)
         IN Then(r1, stringToTypedArray(r1.str, encodingOutput))

(******************************* inputs ************************************)
\* a caller's Uint8Array over a buffer of its own
CallerUint8Array(bytes) ==
    [type |-> "Uint8Array", mem |-> bytes, off |-> 0, len |-> Len(bytes), id |-> CallerId]

\* a caller's Uint8Array over the middle of a larger buffer
CallerSubarray(bytes) ==
    [type |-> "Uint8Array", mem |-> <<170>> \o bytes \o <<187>>, off |-> 1,
     len |-> Len(bytes), id |-> CallerId]

ByteSamples == {0, 9, 13, 16, 171, 255}
HexBuffers == SeqsUpTo(ByteSamples, MaxBufLen) \cup {<<b>> : b \in 0..255}
\* 0 9 a d f A F g space
HexChars == {48, 57, 97, 100, 102, 65, 70, 103, 32}
HexStrings == SeqsUpTo(HexChars, MaxHexLen)

\* 0 1 2 space minus
BitChars == {48, 49, 50, 32, 45}
\* "", "00000001", "10101010"
BitPrefixes == {<<>>, <<48, 48, 48, 48, 48, 48, 48, 49>>, <<49, 48, 49, 48, 49, 48, 49, 48>>}
BitStrings ==
    SeqsUpTo({48, 49}, MaxBitLen)
    \cup {p \o s : p \in BitPrefixes, s \in SeqsUpTo(BitChars, MaxTailLen)}

B64ByteSamples == {0, 65, 251, 255}
B64Buffers == SeqsUpTo(B64ByteSamples, MaxB64Len)
\* A Q - _ + = space
B64Chars == {65, 81, 45, 95, 43, 61, 32}
B64Strings == SeqsUpTo(B64Chars, MaxB64Len)

Labels == Encodings \cup {"nonsense", "HEX"}
\* 0 1 a A z = euro, and a lone high surrogate
DispChars == {48, 49, 97, 65, 122, 61, 8364, 55357}
\* and "0aF9", "DEADbeef"
DispStrings ==
    SeqsUpTo(DispChars, MaxDispLen)
    \cup {<<48, 97, 70, 57>>, <<68, 69, 65, 68, 98, 101, 101, 102>>}
DispByteSamples == {48, 65, 128, 195, 169, 255}
DispBuffers == SeqsUpTo(DispByteSamples, MaxDispLen)
\* "48656c6c6f", "zz", "41"
ConvStrings ==
    SeqsUpTo(DispChars, MaxConvLen)
    \cup {<<52, 56, 54, 53, 54, 99, 54, 99, 54, 102>>, <<122, 122>>, <<52, 49>>}
\* "41", "zz" and one invalid UTF-8 byte
ConvBuffers == SeqsUpTo(DispByteSamples, MaxConvLen) \cup {<<52, 49>>, <<122, 122>>}

Views ==
    {[type |-> ty, mem |-> m, off |-> o, len |-> n, id |-> CallerId] :
        ty \in TypedArrayTypes, m \in SeqsUpTo({17, 34}, MaxMemLen),
        o \in 0..MaxMemLen, n \in 0..MaxMemLen}

\* the views a program can construct: aligned, and inside the buffer
ValidViews ==
    {v \in Views : /\ v.off % BytesPerElement(v.type) = 0
                   /\ v.off + v.len * BytesPerElement(v.type) <= Len(v.mem)}

(******************************* calls *************************************)
Init ==
    /\ pc = "idle"
    /\ op = "none"
    /\ argKind = "none"
    /\ argStr = <<>>
    /\ argTa = NoTa
    /\ argSrc = "none"
    /\ argDst = "none"
    /\ result = NoResult

\* a call on a string
CallOnString(name, s, r) ==
    /\ pc' = "done"
    /\ op' = name
    /\ argKind' = "string"
    /\ argStr' = s
    /\ argTa' = NoTa
    /\ result' = r

\* a call on a typed array
CallOnTypedArray(name, t, r) ==
    /\ pc' = "done"
    /\ op' = name
    /\ argKind' = "bytes"
    /\ argStr' = <<>>
    /\ argTa' = t
    /\ result' = r

CallTypedArrayToHex ==
    /\ pc = "idle"
    /\ \E b \in HexBuffers : \E t \in {CallerUint8Array(b), CallerSubarray(b)} :
           /\ CallOnTypedArray("typedArrayToHex", t, typedArrayToHex(t))
           /\ UNCHANGED <<argSrc, argDst>>

CallHexToTypedArray ==
    /\ pc = "idle"
    /\ \E s \in HexStrings :
           /\ CallOnString("hexToTypedArray", s, hexToTypedArray(s))
           /\ UNCHANGED <<argSrc, argDst>>

CallBinaryStringToTypedArray ==
    /\ pc = "idle"
    /\ \E s \in BitStrings :
           /\ CallOnString("binaryStringToTypedArray", s, binaryStringToTypedArray(s))
           /\ UNCHANGED <<argSrc, argDst>>

CallTypedArrayToBinaryString ==
    /\ pc = "idle"
    /\ \E b \in HexBuffers :
           /\ CallOnTypedArray("typedArrayToBinaryString", CallerUint8Array(b),
                               typedArrayToBinaryString(CallerUint8Array(b)))
           /\ UNCHANGED <<argSrc, argDst>>

CallTypedArrayToAsciiUrl ==
    /\ pc = "idle"
    /\ \E b \in B64Buffers :
           /\ CallOnTypedArray("typedArrayToAsciiUrl", CallerUint8Array(b),
                               typedArrayToAsciiUrl(CallerUint8Array(b)))
           /\ UNCHANGED <<argSrc, argDst>>

CallAsciiUrlToTypedArray ==
    /\ pc = "idle"
    /\ \E s \in B64Strings :
           /\ CallOnString("asciiUrlToTypedArray", s, asciiUrlToTypedArray(s))
           /\ UNCHANGED <<argSrc, argDst>>

CallStringToTypedArray ==
    /\ pc = "idle"
    /\ \E s \in DispStrings, e \in Labels :
           /\ CallOnString("stringToTypedArray", s, stringToTypedArray(s, e))
           /\ argSrc' = e
           /\ UNCHANGED argDst

CallTypedArrayToString ==
    /\ pc = "idle"
    /\ \E b \in DispBuffers, e \in Labels :
           /\ CallOnTypedArray("typedArrayToString", CallerUint8Array(b),
                               typedArrayToString(CallerUint8Array(b), e))
           /\ argSrc' = e
           /\ UNCHANGED argDst

CallConvertEncodingString ==
    /\ pc = "idle"
    /\ \E s \in ConvStrings, e1 \in Labels, e2 \in Labels :
           /\ CallOnString("convertEncoding", s, convertEncoding("string", s, NoTa, e1, e2))
           /\ argSrc' = e1
           /\ argDst' = e2

CallConvertEncodingTypedArray ==
    /\ pc = "idle"
    /\ \E b \in ConvBuffers, e1 \in Labels, e2 \in Labels :
           /\ CallOnTypedArray("convertEncoding", CallerUint8Array(b),
                               convertEncoding("bytes", <<>>, CallerUint8Array(b), e1, e2))
           /\ argSrc' = e1
           /\ argDst' = e2

CallTypedArrayToUint8Array ==
    /\ pc = "idle"
    /\ \E v \in ValidViews :
           /\ CallOnTypedArray("typedArrayToUint8Array", v, TaResult(typedArrayToUint8Array(v)))
           /\ UNCHANGED <<argSrc, argDst>>

CallTypedArrayToHexOfView ==
    /\ pc = "idle"
    /\ \E v \in ValidViews :
           /\ CallOnTypedArray("typedArrayToHex", v, typedArrayToHex(v))
           /\ UNCHANGED <<argSrc, argDst>>

\* the caller takes the outcome; the library keeps no state between calls
Return ==
    /\ pc = "done"
    /\ pc' = "idle"
    /\ op' = "none"
    /\ argKind' = "none"
    /\ argStr' = <<>>
    /\ argTa' = NoTa
    /\ argSrc' = "none"
    /\ argDst' = "none"
    /\ result' = NoResult

NextHex == CallTypedArrayToHex \/ CallHexToTypedArray \/ Return
SpecHex == Init /\ [][NextHex]_vars

NextBase2 == CallBinaryStringToTypedArray \/ CallTypedArrayToBinaryString \/ Return
SpecBase2 == Init /\ [][NextBase2]_vars

NextBase64 == CallTypedArrayToAsciiUrl \/ CallAsciiUrlToTypedArray \/ Return
SpecBase64 == Init /\ [][NextBase64]_vars

NextDispatch ==
    \/ CallStringToTypedArray
    \/ CallTypedArrayToString
    \/ CallConvertEncodingString
    \/ CallConvertEncodingTypedArray
    \/ Return
SpecDispatch == Init /\ [][NextDispatch]_vars

NextView == CallTypedArrayToUint8Array \/ CallTypedArrayToHexOfView \/ Return
SpecView == Init /\ [][NextView]_vars

Next == NextHex \/ NextBase2 \/ NextBase64 \/ NextDispatch \/ NextView
Spec == Init /\ [][Next]_vars

(***************************** properties **********************************)
Done(name) == pc = "done" /\ op = name

AllIn(s, S) == \A k \in 1..Len(s) : s[k] \in S

SameOutcome(r, b) == r.kind = b.kind /\ r.str = b.str /\ r.ta = b.ta /\ r.err = b.err

\* C1: decoding the hex text of a byte buffer gives a byte buffer with the same
\* length and the same byte at every index.
C1_HexRoundTrip ==
    Done("typedArrayToHex") =>
        LET back == hexToTypedArray(result.str)
        IN /\ result.kind = "string"
           /\ back.kind = "bytes"
           /\ back.ta.type = "Uint8Array"
           /\ back.ta.len = argTa.len
           /\ ViewBytes(back.ta) = ViewBytes(argTa)

\* C1 witness: a two-byte buffer whose first byte needs a leading zero was encoded
C1_Witness ==
    /\ Done("typedArrayToHex")
    /\ ViewBytes(argTa) = <<13, 255>>
    /\ argTa.off = 1
    /\ result.str = <<48, 100, 102, 102>>

IsHexString(s) == AllIn(s, DOMAIN HEX_MAP)

LowerHex(s) == [k \in 1..Len(s) |-> IF s[k] \in 65..70 THEN s[k] + 32 ELSE s[k]]

HexCase == Done("stringToTypedArray") /\ argSrc = "hex" /\ Len(argStr) % 2 = 0
           /\ IsHexString(argStr)

\* C2 as stated: an even-length string of hex digits of either case, decoded and
\* encoded again through the dispatchers under "hex", comes back unchanged.
C2_Original ==
    HexCase => /\ result.kind = "bytes"
               /\ typedArrayToString(result.ta, "hex").str = argStr

\* C2 amended: an even-length string of hex digits, decoded and encoded again
\* through the dispatchers under "hex", comes back with its letters A-F in
\* lower case, hence unchanged when it has no upper-case letter.
C2_HexTextRoundTrip ==
    HexCase => /\ result.kind = "bytes"
               /\ typedArrayToString(result.ta, "hex").kind = "string"
               /\ typedArrayToString(result.ta, "hex").str = LowerHex(argStr)
               /\ (AllIn(argStr, (48..57) \cup (97..102))
                      => typedArrayToString(result.ta, "hex").str = argStr)

\* C2 witness: "aA" was decoded
C2_Witness == HexCase /\ argStr = <<97, 65>> /\ ViewBytes(result.ta) = <<170>>

IsBitString(s) == AllIn(s, {48, 49})

\* the i-th run of 8 characters (i from 1), the last one possibly shorter
Group(s, i) == SubSeq(s, 8 * (i - 1) + 1, Min(8 * i, Len(s)))

\* the value of a run of binary digits read as a binary numeral
LiteralValue(g) ==
    LET S[k \in 0..Len(g)] == IF k = 0 THEN 0 ELSE S[k - 1] + (g[k] - 48) * Pow2(Len(g) - k)
    IN S[Len(g)]

\* C3 as stated: a bit string decodes to ceil(length/8) bytes, each the value of
\* its run of 8 digits, a shorter last run being padded with zeros on the right.
C3_Original ==
    (Done("binaryStringToTypedArray") /\ IsBitString(argStr)) =>
        /\ result.kind = "bytes"
        /\ result.ta.len = Ceil(Len(argStr), 8)
        /\ \A i \in 1..result.ta.len :
              ViewBytes(result.ta)[i] =
                  LiteralValue(Group(argStr, i)) * Pow2(8 - Len(Group(argStr, i)))

\* C3 amended: a bit string decodes to ceil(length/8) bytes, each the value of
\* its run of 8 digits; a shorter last run is read as a binary numeral as it
\* stands (as if padded with zeros on the left), so a last run "101" gives 5.
C3_BitStringDecode ==
    (Done("binaryStringToTypedArray") /\ IsBitString(argStr)) =>
        /\ result.kind = "bytes"
        /\ result.ta.len = Ceil(Len(argStr), 8)
        /\ \A i \in 1..result.ta.len :
              ViewBytes(result.ta)[i] = LiteralValue(Group(argStr, i))
        /\ (argStr = <<49, 48, 49>> => ViewBytes(result.ta) = <<5>>)

\* C3 witness: a string of one full run and a shorter last run "1" was decoded
C3_Witness ==
    /\ Done("binaryStringToTypedArray")
    /\ argStr = <<49, 48, 49, 48, 49, 48, 49, 48, 49>>
    /\ ViewBytes(result.ta) = <<170, 1>>

\* C4: a string with a character other than 0 and 1 anywhere in it makes the
\* base2 decoder fail with InvalidInput and return no buffer.
C4_RejectsNonBinary ==
    (Done("binaryStringToTypedArray") /\ ~IsBitString(argStr)) =>
        /\ result.kind = "error"
        /\ result.err = "InvalidInput"

\* the first of convertEncoding's two calls
FirstStage ==
    IF argKind = "string" THEN stringToTypedArray(argStr, argSrc)
    ELSE typedArrayToString(argTa, argSrc)

Unsupported == result.kind = "error" /\ result.err = "UnsupportedEncoding" /\ result.ran = <<>>

\* C5 as stated: with an unrecognized label (of a dispatcher, or the source or
\* the destination of convertEncoding) the call fails with UnsupportedEncoding
\* and no codec routine has run.
C5_Original ==
    /\ (Done("stringToTypedArray") \/ Done("typedArrayToString")) /\ argSrc \notin Encodings
          => Unsupported
    /\ Done("convertEncoding") /\ (argSrc \notin Encodings \/ argDst \notin Encodings)
          => Unsupported

\* C5 amended: a dispatcher given an unrecognized label, and convertEncoding
\* given an unrecognized source label, fail with UnsupportedEncoding and no
\* codec routine has run.  convertEncoding given a recognized source and an
\* unrecognized destination first runs the source label's codec on the value:
\* the call fails with that codec's InvalidInput when it rejects the value, and
\* with UnsupportedEncoding otherwise.
C5_UnsupportedOrder ==
    /\ (Done("stringToTypedArray") \/ Done("typedArrayToString")) /\ argSrc \notin Encodings
          => Unsupported
    /\ Done("convertEncoding") /\ argSrc \notin Encodings
          => Unsupported
    /\ Done("convertEncoding") /\ argSrc \in Encodings /\ argDst \notin Encodings
          => /\ result.kind = "error"
             /\ result.ran = FirstStage.ran
             /\ Len(result.ran) = 1
             /\ result.err = IF FirstStage.kind = "error" THEN "InvalidInput"
                             ELSE "UnsupportedEncoding"

\* C5 witness: "zz" from "hex" to an unrecognized label failed in the hex decoder
C5_Witness ==
    /\ Done("convertEncoding")
    /\ argStr = <<122, 122>> /\ argSrc = "hex" /\ argDst = "nonsense"
    /\ result.err = "InvalidInput"
    /\ result.ran = <<"hexToTypedArray">>

\* C6: n hex digits decode to ceil(n/2) bytes; each pair gives high * 16 + low,
\* and the last digit of an odd-length string gives a byte of its own value.
C6_HexDecode ==
    (Done("hexToTypedArray") /\ IsHexString(argStr)) =>
        LET n == Len(argStr)
            bs == ViewBytes(result.ta)
        IN /\ result.kind = "bytes"
           /\ Len(bs) = Ceil(n, 2)
           /\ \A i \in 0..(Len(bs) - 1) :
                 bs[i + 1] = IF 2 * i + 1 < n
                             THEN HEX_MAP[argStr[2 * i + 1]] * 16 + HEX_MAP[argStr[2 * i + 2]]
                             ELSE HEX_MAP[argStr[n]]
           /\ (argStr = <<100>> => bs = <<13>>)

\* C6 witness: the three digits "fAd" were decoded
C6_Witness ==
    /\ Done("hexToTypedArray")
    /\ argStr = <<102, 65, 100>>
    /\ ViewBytes(result.ta) = <<250, 13>>

\* C7: decoding the URL-safe Base64 text of a byte buffer gives the buffer back,
\* whatever its length modulo 3.
C7_Base64UrlRoundTrip ==
    Done("typedArrayToAsciiUrl") =>
        LET back == asciiUrlToTypedArray(result.str)
        IN /\ result.kind = "string"
           /\ AllIn(result.str, (65..90) \cup (97..122) \cup (48..57) \cup {45, 95})
           /\ back.kind = "bytes"
           /\ ViewBytes(back.ta) = ViewBytes(argTa)

\* C7 witness: a buffer of 4 bytes (padded "==" in standard Base64) whose text
\* holds "-" and "_" was encoded
C7_Witness ==
    /\ Done("typedArrayToAsciiUrl")
    /\ ViewBytes(argTa) = <<251, 255, 255, 65>>
    /\ result.str = <<45, 95, 95, 95, 81, 81>>

\* C8: convertEncoding on a string is typedArrayToString(stringToTypedArray(value,
\* source), dest), a string; on a typed array it is stringToTypedArray(
\* typedArrayToString(value, source), dest), a byte buffer; "48656c6c6f" from
\* "hex" to "ascii" is "SGVsbG8=", and the bytes of "41" from "utf8" to "hex"
\* are the one byte 0x41.
C8_ConvertComposition ==
    Done("convertEncoding") =>
        /\ argKind = "string" =>
              LET a == stringToTypedArray(argStr, argSrc)
              IN /\ result.kind \in {"string", "error"}
                 /\ a.kind = "error" => SameOutcome(result, a)
                 /\ a.kind # "error" => SameOutcome(result, typedArrayToString(a.ta, argDst))
        /\ argKind = "bytes" =>
              LET a == typedArrayToString(argTa, argSrc)
              IN /\ result.kind \in {"bytes", "error"}
                 /\ a.kind = "error" => SameOutcome(result, a)
                 /\ a.kind # "error" => SameOutcome(result, stringToTypedArray(a.str, argDst))
        /\ (argKind = "string" /\ argStr = <<52, 56, 54, 53, 54, 99, 54, 99, 54, 102>>
            /\ argSrc = "hex" /\ argDst = "ascii")
              => result.kind = "string" /\ result.str = <<83, 71, 86, 115, 98, 71, 56, 61>>
        /\ (argKind = "bytes" /\ ViewBytes(argTa) = <<52, 49>>
            /\ argSrc = "utf8" /\ argDst = "hex")
              => result.kind = "bytes" /\ ViewBytes(result.ta) = <<65>>

\* C8 witness: "48656c6c6f" was converted from "hex" to "ascii"
C8_Witness ==
    /\ Done("convertEncoding")
    /\ argKind = "string"
    /\ argStr = <<52, 56, 54, 53, 54, 99, 54, 99, 54, 102>>
    /\ argSrc = "hex" /\ argDst = "ascii"
    /\ result.ran = <<"hexToTypedArray", "typedArrayToAscii">>

\* the other label of each alias pair
AliasOf ==
    [e \in Encodings |->
        CASE e = "base2" -> "binaryString" [] e = "binaryString" -> "base2"
          [] e = "binary" -> "latin1" [] e = "latin1" -> "binary"
          [] e = "base16" -> "hex" [] e = "hex" -> "base16"
          [] e = "base64" -> "ascii" [] e = "ascii" -> "base64"
          [] e = "base64Url" -> "asciiUrl" [] e = "asciiUrl" -> "base64Url"
          [] e = "windows1252" -> "windows-1252" [] e = "windows-1252" -> "windows1252"
          [] e = "utf16" -> "utf-16" [] e = "utf-16" -> "utf16"
          [] e = "utf8" -> "utf-8" [] e = "utf-8" -> "utf8"]

\* the decoder and the encoder each label stands for
RoutinesOf ==
    [e \in Encodings |->
        CASE e \in {"base2", "binaryString"} ->
                <<"binaryStringToTypedArray", "typedArrayToBinaryString">>
          [] e \in {"binary", "latin1"} -> <<"binaryToTypedArray", "typedArrayToBinary">>
          [] e \in {"base16", "hex"} -> <<"hexToTypedArray", "typedArrayToHex">>
          [] e \in {"base64", "ascii"} -> <<"asciiToTypedArray", "typedArrayToAscii">>
          [] e \in {"base64Url", "asciiUrl"} ->
                <<"asciiUrlToTypedArray", "typedArrayToAsciiUrl">>
          [] e \in {"windows1252", "windows-1252"} ->
                <<"windows1252ToTypedArray", "typedArrayToWindows1252">>
          [] e \in {"utf16", "utf-16"} -> <<"utf16ToTypedArray", "typedArrayToUtf16">>
          [] e \in {"utf8", "utf-8"} -> <<"TextEncoder.encode", "typedArrayToUtf8">>]

\* C9: both dispatchers accept the same sixteen labels; a label runs exactly the
\* one codec routine it stands for, the two labels of an alias pair give the
\* same outcome, and any other label fails with UnsupportedEncoding, no codec
\* having run.
C9_Dispatch ==
    /\ Cardinality(Encodings) = 16
    /\ Done("stringToTypedArray") =>
          IF argSrc \in Encodings
          THEN /\ result.ran = <<RoutinesOf[argSrc][1]>>
               /\ result.err # "UnsupportedEncoding"
               /\ result = stringToTypedArray(argStr, AliasOf[argSrc])
          ELSE Unsupported
    /\ Done("typedArrayToString") =>
          IF argSrc \in Encodings
          THEN /\ result.ran = <<RoutinesOf[argSrc][2]>>
               /\ result.err # "UnsupportedEncoding"
               /\ result = typedArrayToString(argTa, AliasOf[argSrc])
          ELSE Unsupported

\* C9 witness: two bytes were encoded under the alias "base16"
C9_Witness ==
    /\ Done("typedArrayToString")
    /\ argSrc = "base16"
    /\ ViewBytes(argTa) = <<65, 255>>
    /\ result.str = <<52, 49, 102, 102>>

\* C10: normalizing a view of n elements of w bytes gives a byte view of exactly
\* the n*w bytes of its elements (the same object for a Uint8Array), and the hex
\* encoder emits text for exactly those bytes.
C10_ViewBytes ==
    /\ Done("typedArrayToUint8Array") =>
          /\ result.ta.type = "Uint8Array"
          /\ result.ta.len = argTa.len * BytesPerElement(argTa.type)
          /\ ViewBytes(result.ta) = ViewBytes(argTa)
          /\ (argTa.type = "Uint8Array" => result.ta = argTa)
    /\ Done("typedArrayToHex") =>
          LET bs == ViewBytes(argTa)
          IN result.str = Concat([i \in 1..Len(bs) |-> ByteToHex(bs[i])])

====
